---- MODULE Spec2Model ----
(***************************************************************************)
(* Model of the Mandelbrot explorer.  Two programs share the repository:   *)
(*   src/src/main.rs                     viewport (center, scale), zoom,   *)
(*                                       spectrum colours                  *)
(*   src/mandelbrot-explorer/src/main.rs fixed region, linear colours      *)
(* The definitions of the second carry the prefix Explorer_.               *)
(*                                                                         *)
(* Numbers.  An f64/f32 value is a pair <<n, d>>:                          *)
(*   d > 0      the finite value n/d, in lowest terms                      *)
(*   <<1, 0>>   +infinity      <<-1, 0>>  -infinity      <<0, 0>>  NaN     *)
(* Finite arithmetic is exact (the rounding of a finite result to 53 or 24 *)
(* bits is not modelled, except where F32 is applied); the IEEE-754 rules  *)
(* for NaN, the infinities, division by zero and comparisons are modelled. *)
(* Zero is unsigned (the code only ever divides by +0.0).                  *)
(***************************************************************************)
EXTENDS Integers, Sequences, FiniteSets, TLC

(* ------------------------------ numbers -------------------------------- *)

IAbs(i) == IF i < 0 THEN -i ELSE i

Sgn(i) == IF i > 0 THEN 1 ELSE IF i < 0 THEN -1 ELSE 0

RECURSIVE Gcd(_, _)
Gcd(a, b) == IF b = 0 THEN a ELSE Gcd(b, a % b)

Norm(n, d) ==
    IF d = 0 THEN <<Sgn(n), 0>>
    ELSE LET g == Gcd(IAbs(n), IAbs(d))
             s == Sgn(d)
         IN  <<s * (n \div g), s * (d \div g)>>

NaN == <<0, 0>>

PInf == <<1, 0>>

NInf == <<-1, 0>>

R(i) == <<i, 1>>

Q(n, d) == Norm(n, d)

IsNaN(a) == a = NaN

IsFinite(a) == a[2] # 0

Neg(a) == <<-a[1], a[2]>>

Add(a, b) ==
    IF a[2] = 0 /\ b[2] = 0 THEN (IF a = b THEN a ELSE NaN)
    ELSE IF a[2] = 0 THEN a
    ELSE IF b[2] = 0 THEN b
    ELSE LET g == Gcd(a[2], b[2])
         IN  Norm(a[1] * (b[2] \div g) + b[1] * (a[2] \div g), (a[2] \div g) * b[2])

Sub(a, b) == Add(a, Neg(b))

Mul(a, b) ==
    IF a[2] = 0 \/ b[2] = 0 THEN <<Sgn(a[1]) * Sgn(b[1]), 0>>
    ELSE LET g1 == Gcd(IAbs(a[1]), b[2])
             g2 == Gcd(IAbs(b[1]), a[2])
         IN  <<(a[1] \div g1) * (b[1] \div g2), (a[2] \div g2) * (b[2] \div g1)>>

Inv(b) ==
    IF b[2] = 0 THEN (IF b[1] = 0 THEN NaN ELSE R(0))
    ELSE IF b[1] = 0 THEN PInf
    ELSE Norm(b[2], b[1])

Div(a, b) == Mul(a, Inv(b))

\* a < b as IEEE-754 compares: false when either side is NaN.
Less(a, b) ==
    IF IsNaN(a) \/ IsNaN(b) THEN FALSE
    ELSE IF a[2] = 0 /\ b[2] = 0 THEN a[1] < b[1]
    ELSE a[1] * b[2] < b[1] * a[2]

\* a >= b as IEEE-754 compares: false when either side is NaN.
Geq(a, b) == ~IsNaN(a) /\ ~IsNaN(b) /\ ~Less(a, b)

Gt(a, b) == Less(b, a)

Leq(a, b) == Geq(b, a)

FAbs(a) == <<IAbs(a[1]), a[2]>>

\* f32::min / f32::max: a NaN operand is ignored.
FMin(a, b) == IF IsNaN(a) THEN b ELSE IF IsNaN(b) THEN a ELSE IF Less(b, a) THEN b ELSE a

FMax(a, b) == IF IsNaN(a) THEN b ELSE IF IsNaN(b) THEN a ELSE IF Less(a, b) THEN b ELSE a

\* f32::clamp(lo, hi): NaN stays NaN.
FClamp(a, lo, hi) == IF IsNaN(a) THEN a ELSE IF Less(a, lo) THEN lo ELSE IF Less(hi, a) THEN hi ELSE a

\* Truncation toward zero of a finite value, as an integer.
Trunc(a) == Sgn(a[1]) * (IAbs(a[1]) \div a[2])

\* f32::round: to the nearest integer, halves away from zero.
FRound(a) ==
    IF a[2] = 0 THEN a
    ELSE LET q == IAbs(a[1]) \div a[2]
             r == IAbs(a[1]) % a[2]
         IN  R(Sgn(a[1]) * (IF r >= a[2] - r THEN q + 1 ELSE q))

\* `as usize` / `as u32` / `as u8` of a float: truncating and saturating, NaN to 0.
AsUnsigned(a, top) ==
    IF IsNaN(a) THEN 0
    ELSE IF a = PInf THEN top
    ELSE IF a = NInf THEN 0
    ELSE LET t == Trunc(a) IN IF t < 0 THEN 0 ELSE IF t > top THEN top ELSE t

\* usize::MAX and u32::MAX are beyond TLC's integers; the largest
\* integer it holds stands for both.
AsUsize(a) == AsUnsigned(a, 2147483647)

AsU32(a) == AsUnsigned(a, 2147483647)

AsU8(a) == AsUnsigned(a, 255)

\* The float remainder a % b (fmod): a - b * trunc(a / b), NaN when undefined.
FRem(a, b) ==
    IF IsNaN(a) \/ IsNaN(b) \/ a[2] = 0 \/ b[1] = 0 THEN NaN
    ELSE IF b[2] = 0 THEN a
    ELSE Sub(a, Mul(b, R(Trunc(Div(a, b)))))

RECURSIVE Pow2(_)
Pow2(k) == IF k = 0 THEN 1 ELSE 2 * Pow2(k - 1)

IsPow2(d) == \E k \in 0..30 : d = Pow2(k)

\* Round-to-nearest-even of the positive rational n/d to an integer.
RoundHalfEven(n, d) ==
    LET q == n \div d
        r == n % d
    IN  IF 2 * r < d THEN q
        ELSE IF 2 * r > d THEN q + 1
        ELSE IF q % 2 = 0 THEN q ELSE q + 1

\* The exponent e >= 0 with 2^e <= n/d < 2^(e+1), for n/d >= 1.
RECURSIVE Log2Floor(_, _)
Log2Floor(n, d) == IF n < 2 * d THEN 0 ELSE 1 + Log2Floor(n, 2 * d)

\* The least k >= 0 with n * 2^k >= d.
RECURSIVE ShiftUp(_, _)
ShiftUp(n, d) == IF n >= d THEN 0 ELSE 1 + ShiftUp(2 * n, d)

\* The positive rational n/d rounded to the nearest f32 (24 significant bits,
\* ties to even); exponent range and subnormals are not modelled.
RoundF32(n, d) ==
    LET e == IF n >= d THEN Log2Floor(n, d) ELSE -ShiftUp(n, d)
    IN  IF e >= 23
        THEN R(RoundHalfEven(n, d * Pow2(e - 23)) * Pow2(e - 23))
        ELSE LET p == Pow2(23 - e)
                 g == Gcd(p, d)
             IN  Q(RoundHalfEven(n * (p \div g), d \div g), p)

\* The f32 nearest to a.
F32(a) ==
    IF a[2] = 0 \/ a[1] = 0 THEN a
    ELSE IF IsPow2(a[2]) /\ IAbs(a[1]) < 16777216 THEN a
    ELSE LET r == RoundF32(IAbs(a[1]), a[2]) IN <<Sgn(a[1]) * r[1], r[2]>>

Half == Q(1, 2)

Four == R(4)

(* ------------------- src/src/main.rs: pure functions ------------------- *)

max_iter == 100

\* zx * zx + zy * zy
NormSq(z) == Add(Mul(z[1], z[1]), Mul(z[2], z[2]))

\* One update of the recurrence: (zx^2 - zy^2 + cx, 2 zx zy + cy).
Step(z, c) ==
    <<Add(Sub(Mul(z[1], z[1]), Mul(z[2], z[2])), c[1]),
      Add(Mul(Mul(R(2), z[1]), z[2]), c[2])>>

\* Variant: a zero dimension is replaced by 1 before dividing.
pixel_to_mandelbrot_guarded(x, y, width, height, center, scale) ==
    LET fx == Div(R(x), R(IF width = 0 THEN 1 ELSE width))
        fy == Div(R(y), R(IF height = 0 THEN 1 ELSE height))
    IN  <<Add(center[1], Mul(Sub(fx, Half), scale)),
          Add(center[2], Mul(Sub(fy, Half), scale))>>

pixel_to_mandelbrot(x, y, width, height, center, scale) ==
    LET fx == Div(R(x), R(width))
        fy == Div(R(y), R(height))
        cx == Add(center[1], Mul(Sub(fx, Half), scale))
        cy == Add(center[2], Mul(Sub(fy, Half), scale))
    IN  <<cx, cy>>

\* Variant: the half-image shift is left out.
mandelbrot_to_pixel_unshifted(zx, zy, width, height, center, scale) ==
    <<F32(Mul(Div(Sub(zx, center[1]), scale), R(width))),
      F32(Mul(Div(Sub(zy, center[2]), scale), R(height)))>>

mandelbrot_to_pixel(zx, zy, width, height, center, scale) ==
    LET fx == Mul(Add(Div(Sub(zx, center[1]), scale), Half), R(width))
        fy == Mul(Add(Div(Sub(zy, center[2]), scale), Half), R(height))
    IN  <<F32(fx), F32(fy)>>

\* The loop test of the evaluator: zx * zx + zy * zy < 4.0 && iter < max_iter.
EscapeLoopTest(z, iter) == Less(NormSq(z), Four) /\ iter < max_iter

\* One pass of the while loop of render_mandelbrot: the test, then the body;
\* a state that fails the test is left as it is (the loop has ended).
EscapePass(st, c) ==
    IF EscapeLoopTest(st.z, st.iter)
    THEN [z |-> Step(st.z, c), iter |-> st.iter + 1]
    ELSE st

\* k passes of the loop, split in halves; the test on mid (always true) has
\* the first half evaluated before the second starts.
RECURSIVE EscapeLoop(_, _, _)
EscapeLoop(k, st, c) ==
    IF k = 0 THEN st
    ELSE IF k = 1 THEN EscapePass(st, c)
    ELSE LET mid == EscapeLoop(k \div 2, st, c)
         IN  IF mid.iter <= max_iter THEN EscapeLoop(k - (k \div 2), mid, c) ELSE mid

\* The while loop from zx = zy = 0.0, iter = 0: every pass adds one to iter,
\* so it has ended after max_iter passes.  Yields the final iter.
escape_iter(c) == EscapeLoop(max_iter, [z |-> <<R(0), R(0)>>, iter |-> 0], c).iter

\* The break test of the tracer: zx * zx + zy * zy >= 4.0.
PathBreakTest(z) == Geq(NormSq(z), Four)

\* One round of the for loop of mandelbrot_path: push, test and break, or
\* update; a state that has broken out is left as it is.
PathPass(st, c) ==
    IF st.done THEN st
    ELSE IF PathBreakTest(st.z)
         THEN [z |-> st.z, path |-> Append(st.path, st.z), done |-> TRUE]
         ELSE [z |-> Step(st.z, c), path |-> Append(st.path, st.z), done |-> FALSE]

RECURSIVE PathLoop(_, _, _)
PathLoop(k, st, c) ==
    IF k = 0 THEN st
    ELSE IF k = 1 THEN PathPass(st, c)
    ELSE LET mid == PathLoop(k \div 2, st, c)
         IN  IF Len(mid.path) <= max_iter THEN PathLoop(k - (k \div 2), mid, c) ELSE mid

\* The tracer from the plane point c on: max_iter rounds of the for loop.
trace_from(c) ==
    PathLoop(max_iter, [z |-> <<R(0), R(0)>>, path |-> <<>>, done |-> FALSE], c).path

mandelbrot_path(px, py, width, height, center, scale) ==
    trace_from(pixel_to_mandelbrot(px, py, width, height, center, scale))

\* The sector of hsv_to_rgb's match on `h as u32`; 6 is the fallback arm.
HsvSector(h) ==
    LET hi == AsU32(h)
    IN  IF hi <= 59 THEN 0
        ELSE IF hi <= 119 THEN 1
        ELSE IF hi <= 179 THEN 2
        ELSE IF hi <= 239 THEN 3
        ELSE IF hi <= 299 THEN 4
        ELSE IF hi <= 359 THEN 5
        ELSE 6

\* Quotient and remainder of k * n by d, by doubling (k * n itself may be
\* beyond TLC's integers).
RECURSIVE MulQuotRem(_, _, _)
MulQuotRem(k, n, d) ==
    IF k = 0 THEN <<0, 0>>
    ELSE LET h == MulQuotRem(k \div 2, n, d)
             r == 2 * h[2] + (IF k % 2 = 1 THEN n % d ELSE 0)
         IN  <<2 * h[1] + (IF k % 2 = 1 THEN n \div d ELSE 0) + r \div d, r % d>>

\* (a * 255.0).round() as u8; the product is taken exactly.
Channel(a) ==
    IF a[2] = 0 \/ a[1] <= 0 THEN AsU8(FRound(Mul(a, R(255))))
    ELSE LET qr == MulQuotRem(255, a[1], a[2])
         IN  AsU8(R(IF qr[2] >= a[2] - qr[2] THEN qr[1] + 1 ELSE qr[1]))

hsv_to_rgb(h, s, v) ==
    LET c == Mul(v, s)
        x == Mul(c, F32(Sub(R(1), FAbs(Sub(FRem(F32(Div(h, R(60))), R(2)), R(1))))))
        m == Sub(v, c)
        k == HsvSector(h)
        rgb1 == CASE k = 0 -> <<c, x, R(0)>>
                  [] k = 1 -> <<x, c, R(0)>>
                  [] k = 2 -> <<R(0), c, x>>
                  [] k = 3 -> <<R(0), x, c>>
                  [] k = 4 -> <<x, R(0), c>>
                  [] k = 5 -> <<c, R(0), x>>
                  [] OTHER -> <<R(0), R(0), R(0)>>
        ch(i) == Channel(Add(rgb1[i], m))
    IN  <<ch(1), ch(2), ch(3)>>

BLACK == <<0, 0, 0>>

\* hue = (1.0 - iter as f32 / max_iter as f32) * 360.0
SpectrumHue(iter) == F32(Mul(F32(Sub(R(1), F32(Div(R(iter), R(max_iter))))), R(360)))

\* Variant: the black test is off by one.
SpectrumColor_early_black(iter) ==
    IF iter >= max_iter - 1 THEN BLACK
    ELSE hsv_to_rgb(SpectrumHue(iter), R(1), R(1))

\* The colour of a pixel whose loop ended with iter.
SpectrumColor(iter) ==
    IF iter = max_iter THEN BLACK
    ELSE hsv_to_rgb(SpectrumHue(iter), R(1), R(1))

\* The body of the pixel loop: the iteration count and the colour pushed.
render_pixel(x, y, width, height, center, scale) ==
    LET iter == escape_iter(pixel_to_mandelbrot(x, y, width, height, center, scale))
    IN  [iter |-> iter, color |-> SpectrumColor(iter)]

\* The ColorImage: rows y = 0 .. height-1, in each x = 0 .. width-1.
render_mandelbrot(width, height, center, scale) ==
    [size |-> <<width, height>>,
     pixels |-> [i \in 1..(width * height) |->
                    render_pixel((i - 1) % width, (i - 1) \div width,
                                 width, height, center, scale).color]]

(* ----------- src/mandelbrot-explorer/src/main.rs: pure functions -------- *)

\* cx = x * scale - 2.0, cy = y * scale - 1.5, with scale = 3.0 / width.
Explorer_point(x, y, width) ==
    LET scale == Div(R(3), R(width))
    IN  <<Sub(Mul(R(x), scale), R(2)), Sub(Mul(R(y), scale), Q(3, 2))>>

\* Variant: the channel is rounded to the nearest integer before the cast.
LinearChannel_rounded(iter) == AsU8(FRound(F32(Div(R(255 * iter), R(max_iter)))))

\* c = (255.0 * iter as f32 / max_iter as f32) as u8
LinearChannel(iter) == AsU8(F32(Div(R(255 * iter), R(max_iter))))

LinearColor(iter) ==
    IF iter = max_iter THEN BLACK
    ELSE LET c == LinearChannel(iter) IN <<c, 0, 255 - c>>

Explorer_render_pixel(x, y, width) ==
    LET iter == escape_iter(Explorer_point(x, y, width))
    IN  [iter |-> iter, color |-> LinearColor(iter)]

Explorer_render_mandelbrot(width, height) ==
    [size |-> <<width, height>>,
     pixels |-> [i \in 1..(width * height) |->
                    Explorer_render_pixel((i - 1) % width, (i - 1) \div width, width).color]]

Explorer_mandelbrot_path(px, py, width, height) ==
    trace_from(Explorer_point(px, py, width))

(* ------------------------------- state --------------------------------- *)

VARIABLES
    program,             \* which main.rs runs: "viewport" (src/src) or "fixed" (explorer)
    mandelbrot_texture,  \* the image the texture holds
    last_size,           \* MandelbrotApp.last_size
    last_click,          \* MandelbrotApp.last_click: <<>> is None, <<<<px, py>>>> is Some
    last_path,           \* MandelbrotApp.last_path: <<>> is the empty Vec
    center,              \* MandelbrotApp.center
    scale,               \* MandelbrotApp.scale
    frame,               \* what the last update saw and did (history)
    zooms,               \* number of zoom steps taken (history)
    p_in,                \* the arguments a pure function is applied to
    p_point,             \* <<pixel_to_mandelbrot(..)>> once applied, else <<>>
    p_back,              \* <<mandelbrot_to_pixel(pixel_to_mandelbrot(..))>>, else <<>>
    p_pixel,             \* <<[iter, color]>> of the pixel loop body, else <<>>
    p_path,              \* <<mandelbrot_path(..)>>, else <<>>
    p_image,             \* <<render_mandelbrot(..)>>, else <<>>
    p_color              \* <<colour of iteration count p_in.iter>>, else <<>>

appVars == <<program, mandelbrot_texture, last_size, last_click, last_path,
             center, scale, frame, zooms>>

probeVars == <<p_in, p_point, p_back, p_pixel, p_path, p_image, p_color>>

vars == <<program, mandelbrot_texture, last_size, last_click, last_path,
          center, scale, frame, zooms,
          p_in, p_point, p_back, p_pixel, p_path, p_image, p_color>>

(* ----------------- the pure functions applied to inputs ---------------- *)

\* Image sides tried: 0 .. MaxDim (viewport program), 1 .. ExplorerMaxDim.
MaxDim == 4

ExplorerMaxDim == 6

DefaultCenter == <<Q(-1, 2), R(0)>>

DefaultScale == R(3)

FiniteCenters == {DefaultCenter, <<R(0), R(0)>>, <<R(-1), R(1)>>}

\* 3.0, one zoom-in from it (3.0 * 0.8), and 4.0.
FiniteScales == {DefaultScale, Q(12, 5), R(4)}

\* The viewport once scale * 1.25 has overflowed to +infinity: the zoom step
\* that overflows sets center to cx - (fx - 0.5) * inf, which is NaN for
\* fx = 0.5 and an infinity otherwise.
OverflowCenters == {<<NaN, NaN>>, <<PInf, NInf>>}

ProbeViews ==
    (FiniteCenters \X FiniteScales) \cup (OverflowCenters \X {PInf})

\* Pixel coordinates tried for a side: the in-bounds ones, and 0 and 1 for a
\* side of 0 (which has none).
Coords(side) == IF side = 0 THEN {0, 1} ELSE 0..(side - 1)

\* fn names the functions the input is for: "map" the coordinate mapper,
\* "orbit" the pixel loop body and the tracer, "image" the whole render,
\* "color" the colour of an iteration count (iter; the loop never ends with 0).
ProbeInputs ==
    {[prog |-> "viewport", fn |-> f, width |-> w, height |-> h, center |-> v[1],
      scale |-> v[2], x |-> x, y |-> y, iter |-> 1] :
        f \in {"map", "orbit", "image"},
        w \in 0..MaxDim, h \in 0..MaxDim, v \in ProbeViews, x \in 0..MaxDim, y \in 0..MaxDim}
    \cup
    {[prog |-> "fixed", fn |-> f, width |-> w, height |-> h, center |-> DefaultCenter,
      scale |-> DefaultScale, x |-> x, y |-> y, iter |-> 1] :
        f \in {"orbit", "image"},
        w \in 1..ExplorerMaxDim, h \in 1..ExplorerMaxDim,
        x \in 0..ExplorerMaxDim, y \in 0..ExplorerMaxDim}
    \cup
    {[prog |-> pr, fn |-> "color", width |-> 1, height |-> 1, center |-> DefaultCenter,
      scale |-> DefaultScale, x |-> 0, y |-> 0, iter |-> n] :
        pr \in {"viewport", "fixed"}, n \in 1..max_iter}

InBounds(i) == i.x < i.width /\ i.y < i.height

\* The plane point of the input's pixel, as the input's program computes it.
InputPoint(i) ==
    IF i.prog = "viewport"
    THEN pixel_to_mandelbrot(i.x, i.y, i.width, i.height, i.center, i.scale)
    ELSE Explorer_point(i.x, i.y, i.width)

IsInt(a) == a[2] = 1

\* The points whose orbit TLC's integers hold: a non-finite point, a
\* point with integer coordinates (its orbit stays integer and small until
\* it escapes), or a point that escapes within two updates.
Tractable(c) ==
    \/ ~IsFinite(c[1]) \/ ~IsFinite(c[2])
    \/ IsInt(c[1]) /\ IsInt(c[2])
    \/ Geq(NormSq(c), Four)
    \/ Geq(NormSq(Step(c, c)), Four)

\* Every pixel of the input's image has a tractable plane point.
ImageTractable(i) ==
    \A x \in 0..(i.width - 1), y \in 0..(i.height - 1) :
        Tractable(InputPoint([i EXCEPT !.x = x, !.y = y]))

\* The inputs a function is applied to.
InputOk(i) ==
    CASE i.fn = "map" -> i.x \in Coords(i.width) /\ i.y \in Coords(i.height)
      [] i.fn = "orbit" -> InBounds(i) /\ Tractable(InputPoint(i))
      [] i.fn = "color" -> TRUE
      [] OTHER -> i.x = 0 /\ i.y = 0 /\ ImageTractable(i)

ApplyPixelToMandelbrot ==
    /\ p_in.prog = "viewport" /\ p_in.fn = "map"
    /\ p_point = <<>>
    /\ LET i == p_in
           pt == pixel_to_mandelbrot(i.x, i.y, i.width, i.height, i.center, i.scale)
       IN  /\ p_point' = <<pt>>
           /\ p_back' = <<mandelbrot_to_pixel(pt[1], pt[2], i.width, i.height,
                                              i.center, i.scale)>>
    /\ UNCHANGED <<p_in, p_pixel, p_path, p_image, p_color>>
    /\ UNCHANGED appVars

ApplyRenderPixel ==
    /\ p_in.prog = "viewport" /\ p_in.fn = "orbit"
    /\ p_pixel = <<>>
    /\ LET i == p_in
       IN  p_pixel' = <<render_pixel(i.x, i.y, i.width, i.height, i.center, i.scale)>>
    /\ UNCHANGED <<p_in, p_point, p_back, p_path, p_image, p_color>>
    /\ UNCHANGED appVars

ApplyMandelbrotPath ==
    /\ p_in.prog = "viewport" /\ p_in.fn = "orbit"
    /\ p_path = <<>>
    /\ LET i == p_in
       IN  p_path' = <<mandelbrot_path(i.x, i.y, i.width, i.height, i.center, i.scale)>>
    /\ UNCHANGED <<p_in, p_point, p_back, p_pixel, p_image, p_color>>
    /\ UNCHANGED appVars

ApplyRenderMandelbrot ==
    /\ p_in.prog = "viewport" /\ p_in.fn = "image"
    /\ p_image = <<>>
    /\ LET i == p_in
       IN  p_image' = <<render_mandelbrot(i.width, i.height, i.center, i.scale)>>
    /\ UNCHANGED <<p_in, p_point, p_back, p_pixel, p_path, p_color>>
    /\ UNCHANGED appVars

Explorer_ApplyRenderPixel ==
    /\ p_in.prog = "fixed" /\ p_in.fn = "orbit"
    /\ p_pixel = <<>>
    /\ p_pixel' = <<Explorer_render_pixel(p_in.x, p_in.y, p_in.width)>>
    /\ UNCHANGED <<p_in, p_point, p_back, p_path, p_image, p_color>>
    /\ UNCHANGED appVars

Explorer_ApplyMandelbrotPath ==
    /\ p_in.prog = "fixed" /\ p_in.fn = "orbit"
    /\ p_path = <<>>
    /\ p_path' = <<Explorer_mandelbrot_path(p_in.x, p_in.y, p_in.width, p_in.height)>>
    /\ UNCHANGED <<p_in, p_point, p_back, p_pixel, p_image, p_color>>
    /\ UNCHANGED appVars

Explorer_ApplyRenderMandelbrot ==
    /\ p_in.prog = "fixed" /\ p_in.fn = "image"
    /\ p_image = <<>>
    /\ p_image' = <<Explorer_render_mandelbrot(p_in.width, p_in.height)>>
    /\ UNCHANGED <<p_in, p_point, p_back, p_pixel, p_path, p_color>>
    /\ UNCHANGED appVars

ApplySpectrumColor ==
    /\ p_in.prog = "viewport" /\ p_in.fn = "color"
    /\ p_color = <<>>
    /\ p_color' = <<SpectrumColor(p_in.iter)>>
    /\ UNCHANGED <<p_in, p_point, p_back, p_pixel, p_path, p_image>>
    /\ UNCHANGED appVars

Explorer_ApplyLinearColor ==
    /\ p_in.prog = "fixed" /\ p_in.fn = "color"
    /\ p_color = <<>>
    /\ p_color' = <<LinearColor(p_in.iter)>>
    /\ UNCHANGED <<p_in, p_point, p_back, p_pixel, p_path, p_image>>
    /\ UNCHANGED appVars

(* ------------------------------ the apps ------------------------------- *)

\* Zoom steps a run may take.
MaxZooms == 2

\* The ColorImage render_mandelbrot(width, height, center, scale) returns.  At
\* the app's sizes (side >= 100) the image is held by the arguments that
\* determine it, render_mandelbrot being a pure function of them.
render_image(width, height, c, s) ==
    [size |-> <<width, height>>, center |-> c, scale |-> s, scheme |-> "spectrum"]

\* The explorer's render_mandelbrot(width, height): the fixed region
\* -2.0 .. 1.0 by -1.5 .. 1.5, linear colours.
Explorer_render_image(width, height) ==
    [size |-> <<width, height>>, center |-> DefaultCenter, scale |-> DefaultScale,
     scheme |-> "linear"]

\* The Vec mandelbrot_path(px, py, width, height, center, scale) returns (never
\* empty: the first round pushes), held by its arguments.
path_of(px, py, width, height, c, s) ==
    <<[px |-> px, py |-> py, size |-> <<width, height>>, center |-> c, scale |-> s]>>

NoFrame ==
    [side |-> 0, hover_in |-> FALSE, scroll |-> 0, zoomed |-> FALSE, px |-> 0, py |-> 0]

\* MandelbrotApp::new of either program.
InitApp ==
    /\ program \in {"viewport", "fixed"}
    /\ mandelbrot_texture =
         IF program = "viewport"
         THEN render_image(800, 600, DefaultCenter, DefaultScale)
         ELSE Explorer_render_image(800, 600)
    /\ last_size = <<800, 600>>
    /\ last_click = <<>>
    /\ last_path = <<>>
    /\ center = DefaultCenter
    /\ scale = DefaultScale
    /\ frame = NoFrame
    /\ zooms = 0

\* What a frame receives from egui: the available size, the hover position
\* (<<>> is None), the frame's MouseWheel deltas (delta.y, in event order) and
\* the pointer position of a click or drag on the image (<<>> is None).
Availables == {<<100, 100>>, <<120, 104>>}

Hovers == {<<>>, <<<<50, 50>>>>, <<<<105, 50>>>>}

WheelEvents == {<<>>, <<0>>, <<1>>, <<-1>>, <<0, 1>>}

Pointers == {<<>>, <<<<25, 75>>>>}

\* side = available.x.min(available.y).max(100.0).round() as usize
ImageSide(avail) == AsUsize(FRound(FMax(FMin(R(avail[1]), R(avail[2])), R(100))))

\* (offset_x.max(0.0), offset_y.max(0.0)), offset = (available - side) / 2.0
ImageMin(avail, side) ==
    <<FMax(Div(Sub(R(avail[1]), R(side)), R(2)), R(0)),
      FMax(Div(Sub(R(avail[2]), R(side)), R(2)), R(0))>>

\* egui's Rect::from_min_size(min, (side, side)).contains(pos): bounds included.
RectContains(min, side, pos) ==
    /\ Leq(min[1], R(pos[1])) /\ Leq(R(pos[1]), Add(min[1], R(side)))
    /\ Leq(min[2], R(pos[2])) /\ Leq(R(pos[2]), Add(min[2], R(side)))

\* (pos - offset.max(0.0)).clamp(0.0, side as f32 - 1.0) as usize, per axis.
CursorPixel(pos, min, side) ==
    <<AsUsize(FClamp(Sub(R(pos[1]), min[1]), R(0), Sub(R(side), R(1)))),
      AsUsize(FClamp(Sub(R(pos[2]), min[2]), R(0), Sub(R(side), R(1))))>>

\* events.iter().find_map(MouseWheel => Some(delta.y)): the first wheel event.
ZoomEvent(wheel) == IF wheel = <<>> THEN <<>> ELSE <<wheel[1]>>

\* Variant: the wheel zooms wherever the pointer hovers.
ZoomRequested_anywhere(hover_in, zoom_event) ==
    zoom_event # <<>> /\ Gt(FAbs(R(zoom_event[1])), R(0))

\* The guards of the zoom block: hover inside the image, a wheel event, and
\* scroll.abs() > 0.0.
ZoomRequested(hover_in, zoom_event) ==
    hover_in /\ zoom_event # <<>> /\ Gt(FAbs(R(zoom_event[1])), R(0))

\* Variant: a factor linear in the scroll delta.
zoom_factor_linear(scroll) == Sub(R(1), R(scroll))

\* zoom_factor = if scroll > 0.0 { 0.8 } else { 1.25 }
zoom_factor(scroll) == IF Gt(R(scroll), R(0)) THEN Q(4, 5) ELSE Q(5, 4)

\* Variant: the new center is solved with the old scale.
zoom_old_scale(c, s, side, px, py, scroll) ==
    LET pt == pixel_to_mandelbrot(px, py, side, side, c, s)
        fx == Div(R(px), R(side))
        fy == Div(R(py), R(side))
    IN  [center |-> <<Sub(pt[1], Mul(Sub(fx, Half), s)), Sub(pt[2], Mul(Sub(fy, Half), s))>>,
         scale |-> Mul(s, zoom_factor(scroll))]

\* The zoom block: the viewport that keeps the point under (px, py) in place.
zoom(c, s, side, px, py, scroll) ==
    LET pt == pixel_to_mandelbrot(px, py, side, side, c, s)
        new_scale == Mul(s, zoom_factor(scroll))
        fx == Div(R(px), R(side))
        fy == Div(R(py), R(side))
        new_center_x == Sub(pt[1], Mul(Sub(fx, Half), new_scale))
        new_center_y == Sub(pt[2], Mul(Sub(fy, Half), new_scale))
    IN  [center |-> <<new_center_x, new_center_y>>, scale |-> new_scale]

\* Variant: a zoom alone does not render.
NeedsRender_size_only(size, last, zoomed) == size # last

\* if size != self.last_size || zoomed
NeedsRender(size, last, zoomed) == size # last \/ zoomed

\* MandelbrotApp::update of src/src/main.rs: one frame.  (The bindings
\* \E v \in {e} name a value computed once.)
update ==
    /\ program = "viewport"
    /\ \E avail \in Availables :
       \E side \in {ImageSide(avail)} :
       \E min \in {ImageMin(avail, side)} :
       \E hover \in Hovers :
       \E hover_in \in {hover # <<>> /\ RectContains(min, side, hover[1])} :
       \E cur \in {IF hover = <<>> THEN <<0, 0>> ELSE CursorPixel(hover[1], min, side)} :
       \E wheel \in WheelEvents :
       \E zoom_event \in {ZoomEvent(wheel)} :
       \E zoomed \in {ZoomRequested(hover_in, zoom_event)} :
       \E view \in {IF zoomed
                    THEN zoom(center, scale, side, cur[1], cur[2], zoom_event[1])
                    ELSE [center |-> center, scale |-> scale]} :
       \E pointer \in Pointers :
         /\ zoomed => zooms < MaxZooms
         /\ center' = view.center
         /\ scale' = view.scale
         /\ zooms' = IF zoomed THEN zooms + 1 ELSE zooms
         /\ IF NeedsRender(<<side, side>>, last_size, zoomed)
            THEN /\ mandelbrot_texture' = render_image(side, side, view.center, view.scale)
                 /\ last_size' = <<side, side>>
            ELSE UNCHANGED <<mandelbrot_texture, last_size>>
         /\ IF pointer # <<>>
            THEN \E p \in {CursorPixel(pointer[1], min, side)} :
                     /\ last_click' = <<p>>
                     /\ last_path' = path_of(p[1], p[2], side, side,
                                             view.center, view.scale)
            ELSE UNCHANGED <<last_click, last_path>>
         /\ frame' = [side |-> side, hover_in |-> hover_in,
                      scroll |-> IF zoom_event = <<>> THEN 0 ELSE zoom_event[1],
                      zoomed |-> zoomed,
                      px |-> IF zoomed THEN cur[1] ELSE 0,
                      py |-> IF zoomed THEN cur[2] ELSE 0]
    /\ UNCHANGED program
    /\ UNCHANGED probeVars

\* if size != self.last_size (the explorer has no viewport to change)
Explorer_NeedsRender(size, last) == size # last

\* MandelbrotApp::update of src/mandelbrot-explorer/src/main.rs: one frame.
Explorer_update ==
    /\ program = "fixed"
    /\ \E avail \in Availables, pointer \in Pointers :
         LET side == ImageSide(avail)
             size == <<side, side>>
             min == ImageMin(avail, side)
         IN  /\ IF Explorer_NeedsRender(size, last_size)
                THEN /\ mandelbrot_texture' = Explorer_render_image(side, side)
                     /\ last_size' = size
                ELSE UNCHANGED <<mandelbrot_texture, last_size>>
             /\ IF pointer # <<>>
                THEN LET p == CursorPixel(pointer[1], min, side)
                     IN  /\ last_click' = <<p>>
                         /\ last_path' = path_of(p[1], p[2], side, side,
                                                 DefaultCenter, DefaultScale)
                ELSE UNCHANGED <<last_click, last_path>>
             /\ frame' = [NoFrame EXCEPT !.side = side]
    /\ UNCHANGED <<program, center, scale, zooms>>
    /\ UNCHANGED probeVars

(* --------------------------- specifications ---------------------------- *)

IdleProbe ==
    /\ p_in = [prog |-> "viewport", fn |-> "map", width |-> 1, height |-> 1,
               center |-> DefaultCenter, scale |-> DefaultScale, x |-> 0, y |-> 0,
               iter |-> 1]
    /\ p_point = <<>>
    /\ p_back = <<>>
    /\ p_pixel = <<>>
    /\ p_path = <<>>
    /\ p_image = <<>>
    /\ p_color = <<>>

Init == InitApp /\ IdleProbe

Next == update \/ Explorer_update

\* The two apps, frame after frame.
Spec == Init /\ [][Next]_vars

InitPure ==
    /\ InitApp
    /\ program = "viewport"
    /\ p_in \in {i \in ProbeInputs : InputOk(i)}
    /\ p_point = <<>>
    /\ p_back = <<>>
    /\ p_pixel = <<>>
    /\ p_path = <<>>
    /\ p_image = <<>>
    /\ p_color = <<>>

NextPure ==
    \/ ApplyPixelToMandelbrot
    \/ ApplyRenderPixel
    \/ ApplyMandelbrotPath
    \/ ApplyRenderMandelbrot
    \/ Explorer_ApplyRenderPixel
    \/ Explorer_ApplyMandelbrotPath
    \/ Explorer_ApplyRenderMandelbrot
    \/ ApplySpectrumColor
    \/ Explorer_ApplyLinearColor

\* The pure functions, each applied to an input drawn at the start.
SpecPure == InitPure /\ [][NextPure]_vars

(* ------------------------------- claims -------------------------------- *)

\* The claims' own test of an escaped point: zx^2 + zy^2 >= 4.0.
ClaimEscaped(z) == Geq(NormSq(z), Four)

\* One step of the search for the least n with |z_n|^2 >= 4.0 along
\* z_0 = (0,0), z_(k+1) = (re^2 - im^2 + c.re, 2 re im + c.im).
ClaimSearchPass(st, c) ==
    IF st.found \/ st.n = max_iter THEN st
    ELSE IF ClaimEscaped(st.z) THEN [st EXCEPT !.found = TRUE]
    ELSE [z |-> <<Add(Sub(Mul(st.z[1], st.z[1]), Mul(st.z[2], st.z[2])), c[1]),
                  Add(Mul(R(2), Mul(st.z[1], st.z[2])), c[2])>>,
          n |-> st.n + 1, found |-> FALSE]

RECURSIVE ClaimSearch(_, _, _)
ClaimSearch(k, st, c) ==
    IF k = 0 THEN st
    ELSE IF k = 1 THEN ClaimSearchPass(st, c)
    ELSE LET mid == ClaimSearch(k \div 2, st, c)
         IN  IF mid.n <= max_iter THEN ClaimSearch(k - (k \div 2), mid, c) ELSE mid

\* The least n in 0 .. max_iter-1 with |z_n|^2 >= 4.0, or max_iter if none.
ClaimLeastEscape(c) ==
    ClaimSearch(max_iter, [z |-> <<R(0), R(0)>>, n |-> 0, found |-> FALSE], c).n

OrbitApplied == p_in.fn = "orbit" /\ p_pixel # <<>> /\ p_path # <<>>

\* C1: for every plane point the tracer and the evaluator agree: the loop
\* ending with iter = n < max_iter means a path of exactly n+1 points whose
\* last point is the first with zx^2+zy^2 >= 4.0; ending with iter = max_iter
\* means a path of exactly max_iter points.  (Fails where the point has a NaN
\* coordinate: C1_NaNPointDisagrees.)
C1_TracerAgreesWithEvaluator ==
    OrbitApplied =>
        LET n == p_pixel[1].iter
            path == p_path[1]
        IN  /\ n < max_iter =>
                 /\ Len(path) = n + 1
                 /\ ClaimEscaped(path[n + 1])
                 /\ \A j \in 1..n : ~ClaimEscaped(path[j])
            /\ n = max_iter => Len(path) = max_iter

\* C1, the failing case reached: a plane point with a NaN coordinate, for
\* which the evaluator ends with iter = 1 and the tracer returns max_iter
\* points.
C1_NaNPointDisagrees ==
    /\ OrbitApplied
    /\ IsNaN(InputPoint(p_in)[1])
    /\ p_pixel[1].iter = 1
    /\ Len(p_path[1]) = max_iter

\* Off the NaN points the two loops do agree (both programs).
C1_AgreeOffNaN ==
    (OrbitApplied /\ ~IsNaN(InputPoint(p_in)[1]) /\ ~IsNaN(InputPoint(p_in)[2]))
        => C1_TracerAgreesWithEvaluator

\* C8: the evaluator loop ends with iter equal to the least n in
\* 0 .. max_iter-1 with |z_n|^2 >= 4.0, and with iter = max_iter exactly when
\* none of z_0 .. z_(max_iter-1) has |z|^2 >= 4.0.  (Fails where the point has
\* a NaN coordinate: the loop test `< 4.0` is false of NaN.)
C8_IterIsLeastEscape ==
    (p_in.fn = "orbit" /\ p_pixel # <<>>) =>
        p_pixel[1].iter = ClaimLeastEscape(InputPoint(p_in))

\* C8, the failing case reached: no z_n of a NaN point has |z_n|^2 >= 4.0,
\* and the loop ends with iter = 1.
C8_NaNPointEscapes ==
    /\ p_in.fn = "orbit" /\ p_pixel # <<>>
    /\ IsNaN(InputPoint(p_in)[1])
    /\ ClaimLeastEscape(InputPoint(p_in)) = max_iter
    /\ p_pixel[1].iter = 1

\* Off the NaN points the loop does end at the least escape (both programs).
C8_LeastEscapeOffNaN ==
    (p_in.fn = "orbit" /\ p_pixel # <<>>
        /\ ~IsNaN(InputPoint(p_in)[1]) /\ ~IsNaN(InputPoint(p_in)[2]))
        => C8_IterIsLeastEscape

\* C3: for width, height >= 1, a finite viewport with scale > 0 and an
\* in-bounds pixel (x, y), mandelbrot_to_pixel(pixel_to_mandelbrot(x, y, ..))
\* is (x, y) exactly.
C3_RoundTrip ==
    (/\ p_in.fn = "map" /\ p_back # <<>>
     /\ p_in.width >= 1 /\ p_in.height >= 1
     /\ IsFinite(p_in.center[1]) /\ IsFinite(p_in.center[2])
     /\ IsFinite(p_in.scale) /\ Gt(p_in.scale, R(0)))
        => p_back[1] = <<R(p_in.x), R(p_in.y)>>

\* C3's case: the round trip of pixel (2, 1) of a 3 x 2 image under the
\* viewport one zoom-in away from the default.
C3_Witness ==
    /\ p_in.fn = "map" /\ p_back # <<>>
    /\ p_in.width = 3 /\ p_in.height = 2 /\ p_in.x = 2 /\ p_in.y = 1
    /\ p_in.center = DefaultCenter /\ p_in.scale = Q(12, 5)
    /\ p_point[1] = <<Q(-1, 10), R(0)>>

\* Nearest integer to 255 n / max_iter.
ClaimRound(n) == (2 * 255 * n + max_iter) \div (2 * max_iter)

\* C6 as stated: the linear colour of an escaped count n is (c, 0, 255 - c)
\* with c = round(255 n / max_iter).
C6_LinearRounds ==
    (p_in.fn = "color" /\ p_in.prog = "fixed" /\ p_color # <<>> /\ p_in.iter < max_iter)
        => p_color[1] = <<ClaimRound(p_in.iter), 0, 255 - ClaimRound(p_in.iter)>>

\* C6 amended: the linear colour of an escaped count n is (c, 0, 255 - c) with
\* c = floor(255 n / max_iter), the quotient truncated.
C6_LinearTruncates ==
    (p_in.fn = "color" /\ p_in.prog = "fixed" /\ p_color # <<>> /\ p_in.iter < max_iter)
        => LET c == (255 * p_in.iter) \div max_iter
           IN  p_color[1] = <<c, 0, 255 - c>>

\* C6's case: n = 1, where 2.55 truncates to 2 and rounds to 3.
C6_Witness ==
    /\ p_in.fn = "color" /\ p_in.prog = "fixed" /\ p_in.iter = 1
    /\ p_color = <<<<2, 0, 253>>>>

\* C7 as stated: a render_mandelbrot or pixel_to_mandelbrot that receives 0
\* for width or height does not return a normal result.
C7_ZeroDimensionRejected ==
    (p_in.prog = "viewport" /\ (p_in.width = 0 \/ p_in.height = 0))
        => (p_image = <<>> /\ p_point = <<>>)

\* C7 amended: with width or height 0, render_mandelbrot returns normally
\* the image of that size with no pixels, and pixel_to_mandelbrot returns
\* normally a point whose re (width = 0) or im (height = 0) coordinate is not
\* finite: under a finite viewport NaN for coordinate 0, +infinity otherwise.
C7_ZeroDimensionReturns ==
    /\ (p_in.prog = "viewport" /\ p_in.fn = "image" /\ p_image # <<>>
            /\ (p_in.width = 0 \/ p_in.height = 0))
         => p_image[1] = [size |-> <<p_in.width, p_in.height>>, pixels |-> <<>>]
    /\ (p_in.fn = "map" /\ p_point # <<>> /\ p_in.width = 0)
         => /\ ~IsFinite(p_point[1][1])
            /\ (IsFinite(p_in.scale) /\ IsFinite(p_in.center[1]))
                 => p_point[1][1] = (IF p_in.x = 0 THEN NaN ELSE PInf)
    /\ (p_in.fn = "map" /\ p_point # <<>> /\ p_in.height = 0)
         => /\ ~IsFinite(p_point[1][2])
            /\ (IsFinite(p_in.scale) /\ IsFinite(p_in.center[2]))
                 => p_point[1][2] = (IF p_in.y = 0 THEN NaN ELSE PInf)

\* C7's case: pixel_to_mandelbrot applied with width = 0 has returned.
C7_Witness ==
    /\ p_in.fn = "map" /\ p_in.width = 0 /\ p_in.height = 2
    /\ p_in.x = 1 /\ p_in.center = DefaultCenter /\ p_in.scale = DefaultScale
    /\ p_point # <<>> /\ p_point[1][1] = PInf

\* C10: a rendered pixel is black iff its loop ended with iter = max_iter;
\* an escaped pixel has 1 <= iter <= max_iter - 1; for each such count the
\* spectrum hue lies strictly inside (0, 360), the fallback arm of hsv_to_rgb
\* is not taken and a channel is 255, and the linear colour is not black.
C10_BlackIffBounded ==
    /\ p_pixel # <<>> =>
         /\ p_pixel[1].color = BLACK <=> p_pixel[1].iter = max_iter
         /\ 1 <= p_pixel[1].iter /\ p_pixel[1].iter <= max_iter
         /\ p_pixel[1].color =
              (IF p_in.prog = "viewport" THEN SpectrumColor(p_pixel[1].iter)
               ELSE LinearColor(p_pixel[1].iter))
    /\ p_color # <<>> =>
         /\ p_color[1] = BLACK <=> p_in.iter = max_iter
         /\ (p_in.prog = "viewport" /\ p_in.iter < max_iter) =>
              /\ Gt(SpectrumHue(p_in.iter), R(0))
              /\ Less(SpectrumHue(p_in.iter), R(360))
              /\ HsvSector(SpectrumHue(p_in.iter)) # 6
              /\ \E k \in 1..3 : p_color[1][k] = 255

\* C10's case: the colour of the last escaped count, 99, in the spectrum
\* scheme.
C10_Witness ==
    /\ p_in.fn = "color" /\ p_in.prog = "viewport" /\ p_in.iter = max_iter - 1
    /\ p_color # <<>> /\ p_color[1] # BLACK

\* C2: a zoom step leaves the plane point under the cursor pixel where it
\* was: pixel_to_mandelbrot at (px, py) under the new viewport equals
\* pixel_to_mandelbrot at (px, py) under the old one.
C2_ZoomFixedPoint ==
    [][frame'.zoomed =>
         pixel_to_mandelbrot(frame'.px, frame'.py, frame'.side, frame'.side,
                             center', scale')
           = pixel_to_mandelbrot(frame'.px, frame'.py, frame'.side, frame'.side,
                                 center, scale)]_vars

\* C2's case: a second zoom, outward, at a pixel off the image center.
C2_Witness ==
    /\ frame.zoomed /\ frame.scroll < 0 /\ zooms = 2
    /\ frame.px = 97 /\ frame.side = 104
    /\ center # DefaultCenter

\* C4: at the end of every frame the texture holds the render for the
\* frame's side x side and the current viewport, the first frame included.
C4_TextureIsCurrent ==
    frame.side > 0 =>
        mandelbrot_texture =
            (IF program = "viewport"
             THEN render_image(frame.side, frame.side, center, scale)
             ELSE Explorer_render_image(frame.side, frame.side))

\* C4's case: a frame that zoomed without a change of size.
C4_Witness ==
    /\ frame.zoomed /\ zooms = 2 /\ last_size = <<100, 100>>
    /\ mandelbrot_texture.scale = scale /\ scale # DefaultScale

\* C5: from scale 3.0, with each zoom multiplying scale by 0.8 (delta > 0) or
\* by 1.25 (delta < 0), the stored scale is strictly positive in every state.
C5_ScalePositive == Gt(scale, R(0))

\* The steps C5 speaks of: a zoom with delta > 0 multiplies scale by 0.8, one
\* with delta < 0 by 1.25.
ScaleSteps ==
    [][frame'.zoomed =>
         scale' = Mul(scale, IF frame'.scroll > 0 THEN Q(4, 5) ELSE Q(5, 4))]_vars

\* C5's case: a zoom in followed by a zoom in, scale = 3.0 * 0.8 * 0.8.
C5_Witness == zooms = 2 /\ scale = Q(48, 25)

\* C9: a frame changes center or scale only if its first wheel event has a
\* non-zero delta and the hover position is inside the image.
C9_ViewportFrame ==
    [][(center' # center \/ scale' # scale) =>
         (frame'.hover_in /\ frame'.scroll # 0)]_vars

\* C9's case: a frame with a scroll while the pointer hovers outside the
\* image, after which the viewport is still the default.
C9_Witness ==
    /\ frame.side = 100 /\ ~frame.hover_in /\ frame.scroll = 1
    /\ zooms = 0 /\ center = DefaultCenter /\ scale = DefaultScale

====
